---------------------------- MODULE Spec2Model ----------------------------
(***************************************************************************)
(* A model of the Dagger session of src/src/dagger/dagger.py: the layer    *)
(* list, the job list, the descriptor registry and the script files of     *)
(* dag_dir, with one action per public method, and of the submit-file      *)
(* writer of src/src/dagger/daghandler.py.                                  *)
(*                                                                         *)
(* Conventions.  A Python str that is a file path is a sequence of path    *)
(* components, the first being "/" when the path is absolute; "" is <<>>.  *)
(* A Python dict is the sequence of its <<key, value>> items in insertion  *)
(* order.  A source line is the sequence of its characters.  The empty     *)
(* layer name "" is Python's falsy default.                                *)
(***************************************************************************)
EXTENDS Naturals, Sequences, FiniteSets, TLC

VARIABLES
    layer_list,        \* self._layer_list
    job_list,          \* self._job_list: the NodeLayer objects
    job_names,         \* self._job_names
    nlayers,           \* self._nlayers
    submit_functions,  \* self._submit_functions: function name -> Submit
    dag,               \* self.dag: the htcondor2 DAG (nodes and edges)
    files,             \* the regular files that exist: path -> content
    dirs,              \* the directories that exist
    decorated,         \* the wrappers add_func_to_layer has returned
    cube,              \* what cubeDagger.write_cube_imaging_submit_file left
    calls,             \* history: the names of the layers of successful calls
    last               \* the last call: operation, arguments, outcome

vars == <<layer_list, job_list, job_names, nlayers, submit_functions, dag,
          files, dirs, decorated, cube, calls, last>>

-----------------------------------------------------------------------------
(* Bounds of the model *)

MaxLayers == 3

MaxScripts == 2

-----------------------------------------------------------------------------
(* Python dicts *)

RECURSIVE DictHas(_, _)
DictHas(d, k) ==
    IF d = <<>> THEN FALSE
    ELSE IF Head(d)[1] = k THEN TRUE ELSE DictHas(Tail(d), k)

RECURSIVE DictGet(_, _)
DictGet(d, k) ==
    IF d = <<>> THEN <<"KeyError">>
    ELSE IF Head(d)[1] = k THEN Head(d)[2] ELSE DictGet(Tail(d), k)

DictKeys(d) == {d[i][1] : i \in 1..Len(d)}

\* d[k] = v: an existing key keeps its position, a new key goes last
DictSet(d, k, v) ==
    IF DictHas(d, k)
    THEN [i \in 1..Len(d) |-> IF d[i][1] = k THEN <<k, v>> ELSE d[i]]
    ELSE Append(d, <<k, v>>)

\* d.update(o), and d | o
RECURSIVE DictUpdate(_, _)
DictUpdate(d, o) ==
    IF o = <<>> THEN d
    ELSE DictUpdate(DictSet(d, Head(o)[1], Head(o)[2]), Tail(o))

-----------------------------------------------------------------------------
(* os.path *)

dag_dir == <<"dag">>

\* the directories that exist: dag_dir (made by _setup) and one outside it
Dirs == {dag_dir, <<"/", "abs">>}

isabs(p) == Len(p) > 0 /\ p[1] = "/"

join(a, p) == IF isabs(p) THEN p ELSE a \o p

basename(p) == IF Len(p) = 0 THEN <<>> ELSE <<p[Len(p)]>>

dirname(p) == IF Len(p) = 0 THEN <<>> ELSE SubSeq(p, 1, Len(p) - 1)

\* a file system fs is [dirs |-> the directories, files |-> path -> content]

\* os.path.exists(p)
exists(fs, p) == p \in fs.dirs \/ p \in DOMAIN fs.files

\* os.path.isfile(p)
isfile(fs, p) == p \in DOMAIN fs.files

\* os.listdir(d): the names of the entries directly inside d
listdir(fs, d) ==
    {p[Len(p)] : p \in {q \in fs.dirs \cup DOMAIN fs.files :
                           Len(q) > 0 /\ dirname(q) = d}}

\* os.makedirs(d): d and the directories above it
makedirs(fs, d) ==
    [fs EXCEPT !.dirs = @ \cup {SubSeq(d, 1, k) : k \in 1..Len(d)}]

\* os.remove(p) for each p of a set of regular files
remove(fs, paths) ==
    [fs EXCEPT !.files = [q \in (DOMAIN fs.files) \ paths |-> fs.files[q]]]

-----------------------------------------------------------------------------
(* The objects handed to the session as func *)

Funcs == {"f", "g"}

\* "notfn" stands for a str such as "not_a_function"
Objects == Funcs \cup {"notfn"}

\* a buggy check: everything passes for a callable
callable_anything(o) == TRUE

callable(o) == o \in Funcs

Sp(n) == [i \in 1..n |-> " "]

\* inspect.getsource(func).split("\n"): the source ends in a newline, so the
\* list ends in an empty line.  f is defined at module level, g inside a
\* function (as in the tests) and holds a nested block.
getsource_split(func) ==
    IF func = "f"
    THEN << <<"d", "e", "f", " ", "f", ":">>,
            Sp(4) \o <<"r", "e", "t">>,
            <<>> >>
    ELSE << Sp(4) \o <<"d", "e", "f", " ", "g", ":">>,
            Sp(8) \o <<"i", "f", " ", "c", ":">>,
            Sp(12) \o <<"r", "u", "n">>,
            <<>> >>

name_of(func) == func

RECURSIVE lstrip(_)
lstrip(line) ==
    IF line # <<>> /\ Head(line) = " " THEN lstrip(Tail(line)) ELSE line

\* line[n:]
slice_from(line, n) ==
    IF n >= Len(line) THEN <<>> ELSE SubSeq(line, n + 1, Len(line))

\* the function's lines without the first, cut by the first body line's indent;
\* "\n".join of the lines is kept as the list of the lines
parse_lines(all, trim_whitespace) ==
    LET funcstr == SubSeq(all, 2, Len(all))
        indent_level == Len(funcstr[1]) - Len(lstrip(funcstr[1]))
    IN  IF trim_whitespace
        THEN [i \in 1..Len(funcstr) |-> slice_from(funcstr[i], indent_level)]
        ELSE funcstr

parse_function(func, trim_whitespace) ==
    parse_lines(getsource_split(func), trim_whitespace)

\* The sources of the functions that are parsed.  A function is defined at
\* column base, on one line or with its parameters on lines of their own, and
\* its body is made of statements at base + 4 ("a"), statements nested in a
\* block at base + 8 ("b") and comments at column 0 ("c").
MaxBody == 3

BodyKinds == {"a", "b", "c"}

\* the bodies getsource returns: the first line that is no comment is a
\* statement of the function's own block, and the last line is no comment at
\* column 0 (such a comment is not part of the function's block)
Bodies ==
    {b \in UNION {[1..n -> BodyKinds] : n \in 1..MaxBody} :
        /\ \E i \in 1..Len(b) : b[i] = "a" /\ \A j \in 1..(i - 1) : b[j] = "c"
        /\ b[Len(b)] # "c"}

Sources == [base : {0, 4}, multiline : BOOLEAN, body : Bodies]

signature_lines(src) ==
    IF src.multiline
    THEN << Sp(src.base) \o <<"d", "e", "f", "(">>,
            Sp(src.base + 4) \o <<"x", ",">>,
            Sp(src.base) \o <<")", ":">> >>
    ELSE << Sp(src.base) \o <<"d", "e", "f", ":">> >>

body_line(src, kind) ==
    IF kind = "a" THEN Sp(src.base + 4) \o <<"a">>
    ELSE IF kind = "b" THEN Sp(src.base + 8) \o <<"b">>
    ELSE <<"#", "c">>

body_lines(src) == [i \in 1..Len(src.body) |-> body_line(src, src.body[i])]

\* inspect.getsource(func).split("\n") of such a function
source_split(src) == signature_lines(src) \o body_lines(src) \o << <<>> >>

-----------------------------------------------------------------------------
(* The session and the outcome of a call *)

Self ==
    [layer_list |-> layer_list, job_list |-> job_list, job_names |-> job_names,
     nlayers |-> nlayers, submit_functions |-> submit_functions, dag |-> dag,
     files |-> files, dirs |-> dirs]

NoRet == [kind |-> "None"]

Return(s, ret) == [s |-> s, err |-> "", ret |-> ret]

Raise(s, e) == [s |-> s, err |-> e, ret |-> NoRet]

Submit(d) == [kind |-> "Submit", opts |-> d]

\* an object that is no htcondor2.Submit
NotSubmit == [kind |-> "str", opts |-> <<>>]

-----------------------------------------------------------------------------
(* Dagger.func_to_submit_obj *)

\* the path the script is written to
script_path(func, py_script_name) ==
    IF Len(py_script_name) = 0
    THEN join(dag_dir, <<name_of(func) \o ".py">>)
    ELSE IF ~isabs(py_script_name)
         THEN join(dag_dir, py_script_name)
         ELSE py_script_name

\* a buggy descriptor: the executable is the path as written
submit_dict_full_path(path, submit_args) ==
    DictUpdate(<< <<"executable", path>> >>, submit_args)

submit_dict(path, submit_args) ==
    DictUpdate(<< <<"executable", basename(path)>> >>, submit_args)

\* the permissions of a file that open(path, "w") creates: read and write, and
\* nothing changes them afterwards
script_permissions == {"r", "w"}

\* open(path, "w") fails when the directory is missing or path is a directory
open_fails(s, path) ==
    \/ dirname(path) \notin s.dirs
    \/ path \in s.dirs

\* a buggy registry: a name that is registered keeps its first descriptor
register_keep_first(registry, funcname, submit_obj) ==
    [n \in DOMAIN registry \cup {funcname} |->
        IF n \in DOMAIN registry THEN registry[n] ELSE submit_obj]

\* self._submit_functions[funcname] = submit_obj
register(registry, funcname, submit_obj) ==
    [n \in DOMAIN registry \cup {funcname} |->
        IF n = funcname THEN submit_obj ELSE registry[n]]

func_to_submit_obj(s, func, py_script_name, submit_args) ==
    IF ~callable(func) THEN Raise(s, "TypeError")
    ELSE
    LET funcstr == parse_function(func, TRUE)
        funcname == name_of(func)
        path == script_path(func, py_script_name)
    IN  IF open_fails(s, path) THEN Raise(s, "OSError")
        ELSE
        LET submit_obj == Submit(submit_dict(path, submit_args))
            written == [p \in DOMAIN s.files \cup {path} |->
                           IF p = path THEN funcstr ELSE s.files[p]]
            registry == register(s.submit_functions, funcname, submit_obj)
        IN  Return([s EXCEPT !.files = written,
                             !.submit_functions = registry],
                   submit_obj)

-----------------------------------------------------------------------------
(* htcondor2.dags, as the session uses it: a DAG holds its nodes in creation *)
(* order and the parent -> child edges between them.                         *)

NodeLayer(d, name, parent, submit_obj, submit_vars) ==
    [id |-> Len(d.nodes) + 1, name |-> name, parent |-> parent,
     submit_description |-> submit_obj, vars |-> submit_vars]

\* the job instances of a layer: one per element of its vars, in order
job_instances(job) == job.vars

\* self.dag.layer(name=..., submit_description=..., vars=...)
layer(d, name, submit_obj, submit_vars) ==
    LET job == NodeLayer(d, name, 0, submit_obj, submit_vars)
    IN  [dag |-> [d EXCEPT !.nodes = Append(@, job)], job |-> job]

\* a buggy child: the node is made, the edge from its parent is not
child_layer_no_edge(d, parent, name, submit_obj, submit_vars) ==
    LET job == NodeLayer(d, name, parent.id, submit_obj, submit_vars)
    IN  [dag |-> [d EXCEPT !.nodes = Append(@, job)], job |-> job]

\* parent.child_layer(name=..., submit_description=..., vars=...)
child_layer(d, parent, name, submit_obj, submit_vars) ==
    LET job == NodeLayer(d, name, parent.id, submit_obj, submit_vars)
    IN  [dag |-> [d EXCEPT !.nodes = Append(@, job),
                           !.edges = @ \cup {<<parent.id, job.id>>}],
         job |-> job]

-----------------------------------------------------------------------------
(* Dagger.dag_layer *)

\* name in list
In(name, list) == \E i \in 1..Len(list) : list[i] = name

\* a buggy lookup: the last position holding name
index_last(list, name) ==
    CHOOSE i \in 1..Len(list) :
        list[i] = name /\ \A j \in (i + 1)..Len(list) : list[j] # name

\* list.index(name): the first position holding name
index(list, name) ==
    CHOOSE i \in 1..Len(list) :
        list[i] = name /\ \A j \in 1..(i - 1) : list[j] # name

\* a buggy failure: the layer was counted before the parent was checked
unknown_parent_counted(s) ==
    Raise([s EXCEPT !.nlayers = @ + 1], "ValueError")

\* a buggy failure: the call returns None and raises nothing
unknown_parent_silent(s) == Return(s, NoRet)

unknown_parent(s) == Raise(s, "ValueError")

\* a buggy default name: the number of layers so far, from 0
default_layer_name_from_zero(s) == "layer_" \o ToString(Len(s.layer_list))

default_layer_name(s) == "layer_" \o ToString(s.nlayers)

\* a buggy bookkeeping: the newest layer first
record_layer_first(s, d, job) ==
    [s EXCEPT !.dag = d,
              !.nlayers = @ + 1,
              !.layer_list = <<job.name>> \o @,
              !.job_list = <<job>> \o @,
              !.job_names = <<job.name>> \o @]

\* a buggy bookkeeping: the layer is recorded and not counted
record_layer_uncounted(s, d, job) ==
    [s EXCEPT !.dag = d,
              !.layer_list = Append(@, job.name),
              !.job_list = Append(@, job),
              !.job_names = Append(@, job.name)]

record_layer(s, d, job) ==
    [s EXCEPT !.dag = d,
              !.nlayers = @ + 1,
              !.layer_list = Append(@, job.name),
              !.job_list = Append(@, job),
              !.job_names = Append(@, job.name)]

\* a buggy attachment: the child hangs under the newest layer
parent_job_newest(s, parent_layer_name) == s.job_list[Len(s.job_list)]

parent_job(s, parent_layer_name) ==
    s.job_list[index(s.layer_list, parent_layer_name)]

\* a buggy order of the checks: the parent is looked up before the type of
\* the descriptor is checked
dag_layer_parent_first(s, submit_obj, submit_vars, layer_name, parent_layer_name) ==
    IF parent_layer_name # "" /\ ~In(parent_layer_name, s.layer_list)
    THEN unknown_parent(s)
    ELSE IF submit_obj.kind # "Submit" THEN Raise(s, "TypeError")
    ELSE
    LET name == IF layer_name = "" THEN default_layer_name(s) ELSE layer_name
        made == IF parent_layer_name # ""
                THEN child_layer(s.dag, parent_job(s, parent_layer_name),
                                 name, submit_obj, submit_vars)
                ELSE layer(s.dag, name, submit_obj, submit_vars)
    IN  Return(record_layer(s, made.dag, made.job),
               [kind |-> "NodeLayer", val |-> made.job])

dag_layer(s, submit_obj, submit_vars, layer_name, parent_layer_name) ==
    IF submit_obj.kind # "Submit" THEN Raise(s, "TypeError")
    ELSE IF parent_layer_name # "" /\ ~In(parent_layer_name, s.layer_list)
    THEN unknown_parent(s)
    ELSE
    LET name == IF layer_name = "" THEN default_layer_name(s) ELSE layer_name
        made == IF parent_layer_name # ""
                THEN child_layer(s.dag, parent_job(s, parent_layer_name),
                                 name, submit_obj, submit_vars)
                ELSE layer(s.dag, name, submit_obj, submit_vars)
    IN  Return(record_layer(s, made.dag, made.job),
               [kind |-> "NodeLayer", val |-> made.job])

-----------------------------------------------------------------------------
(* Dagger.func_to_layer *)

func_to_layer(s, func, py_script_name, submit_args, layer_name, parent_layer_name, layer_vars) ==
    IF ~callable(func) THEN Raise(s, "TypeError")
    ELSE
    LET made == func_to_submit_obj(s, func, py_script_name, submit_args)
    IN  IF made.err # "" THEN made
        ELSE dag_layer(made.s, made.ret, layer_vars, layer_name,
                       parent_layer_name)

-----------------------------------------------------------------------------
(* Dagger.add_func_to_layer: the decorator and the wrapper it returns *)

\* what the decorated function itself computes from its arguments
original_result(func, args) == [kind |-> "value", val |-> <<func, args>>]

\* decorator(func): nothing but the wrapper is made
decorator(s, func, layer_name, outer_kwargs) ==
    IF ~callable(func) THEN Raise(s, "TypeError")
    ELSE Return(s, [kind |-> "wrapper", val |-> func])

\* the attributes set on the wrapper, as a dict: neither decorator nor wrapper
\* assigns one
wrapper_attributes(w) == <<>>

\* wrapper(*args, **kwargs): kwargs are the call's keyword arguments (the
\* decorator's own kwargs are shadowed), args are not used, func is not called
wrapper(s, w, args, kwargs) ==
    IF ~(DictKeys(kwargs) \subseteq {"py_script_name", "submit_args"})
    THEN Raise(s, "TypeError")
    ELSE
    LET made == func_to_submit_obj(
                    s, w.func,
                    IF DictHas(kwargs, "py_script_name")
                    THEN DictGet(kwargs, "py_script_name") ELSE <<>>,
                    IF DictHas(kwargs, "submit_args")
                    THEN DictGet(kwargs, "submit_args") ELSE <<>>)
    IN  IF made.err # "" THEN made
        ELSE IF kwargs # <<>>
        \* py_script_name / submit_args reach NodeLayer, which takes neither
        THEN Raise(made.s, "TypeError")
        ELSE dag_layer(made.s, made.ret, << <<>> >>, w.layer_name, "")

-----------------------------------------------------------------------------
(* Dagger.write_dag *)

dag_name == "wf"

\* the workflow description: a JOB line per node in creation order, then a
\* PARENT .. CHILD line per edge
dag_file_text(d) ==
    [nodes |-> [i \in 1..Len(d.nodes) |-> <<"JOB", d.nodes[i].name>>],
     edges |-> {<<"PARENT", d.nodes[e[1]].name, "CHILD", d.nodes[e[2]].name>> :
                    e \in d.edges}]

\* the file write_dag writes
dag_file == join(dag_dir, <<dag_name \o ".dag">>)

\* a buggy writer: the session is emptied once the file is written
write_dag_consuming(s) ==
    Return([s EXCEPT !.files =
                   [p \in DOMAIN s.files \cup {dag_file} |->
                       IF p = dag_file THEN dag_file_text(s.dag)
                       ELSE s.files[p]],
                     !.layer_list = <<>>, !.job_list = <<>>,
                     !.job_names = <<>>, !.nlayers = 1],
           NoRet)

write_dag(s) ==
    LET path == dag_file
    IN  Return([s EXCEPT !.files =
                   [p \in DOMAIN s.files \cup {path} |->
                       IF p = path THEN dag_file_text(s.dag) ELSE s.files[p]]],
               NoRet)

-----------------------------------------------------------------------------
(* cubeDagger.write_cube_imaging_submit_file (daghandler.py) *)

\* the dict literal of lines 168-193, its entries read as key: value
submit_args_default ==
    << <<"gridder", <<"mosaic">>>>,
       <<"imsize", <<"8192">>>>,
       <<"cell", <<"0.004arcsec">>>>,
       <<"stokes", <<"I">>>>,
       <<"niter", <<"100000">>>>,
       <<"usemask", <<"auto-multithresh">>>>,
       <<"threshold", <<"2mJy">>>>,
       <<"+SingularityImage", <<"osdf:", "casa-6.6.0-modular.sif">>>>,
       <<"+WantOSPool", <<"true">>>>,
       <<"executable", <<"tclean.py">>>>,
       <<"arguments", <<"$(input_data) --jobid $(Process)">>>>,
       <<"transfer_input_files", <<"$(input_data)">>>>,
       <<"should_transfer_files", <<"YES">>>>,
       <<"when_to_transfer_output", <<"ON_EXIT_OR_EVICT">>>>,
       <<"request_cpus", <<"1">>>>,
       <<"request_memory", <<"50G">>>>,
       <<"request_disk", <<"100G">>>>,
       <<"max_retries", <<"2">>>>,
       <<"log", <<"tclean_$(Process).log">>>>,
       <<"output", <<"tclean_$(Process).out">>>>,
       <<"error", <<"tclean_$(Process).err">>>>,
       <<"unordered_lines", <<"">>>> >>

\* the names bound inside write_cube_imaging_submit_file when line 196 runs
cube_locals ==
    {"self", "submit_args_dict", "use_default_dict", "script_name",
     "file_mode", "submit_str", "submit_args_default"}

\* lines 195-205; the flag is read under the name use_default
cube_submit_args(submit_args_dict, use_default_dict) ==
    IF "use_default" \notin cube_locals
    THEN [err |-> "NameError", submit_args |-> <<>>]
    ELSE IF Len(submit_args_dict) > 0
    THEN IF use_default_dict
         THEN [err |-> "",
               submit_args |-> DictUpdate(submit_args_default, submit_args_dict)]
         ELSE [err |-> "", submit_args |-> submit_args_dict]
    ELSE IF use_default_dict
    THEN [err |-> "", submit_args |-> submit_args_default]
    ELSE [err |-> "ValueError", submit_args |-> <<>>]

\* daghandler.py does not compile as written (the entries of lines 176-192 use
\* = for :), so no call can get as far as line 195
daghandler_compiles == FALSE

\* lines 207-212: the text of the options, line by line; a line is
\* <<key, "=", value>>, and the value alone for the key unordered_lines
submit_str_of(submit_args) ==
    [i \in 1..Len(submit_args) |->
        IF submit_args[i][1] = "unordered_lines"
        THEN <<submit_args[i][2]>>
        ELSE <<submit_args[i][1], "=", submit_args[i][2]>>]

\* DAGWriterBase.write_job_submit_file: the lines of the file it writes.
\* submit_str is set to "", extended by inp_str, and then assigned "\n";
\* the file receives submit_str and one more "\n".
write_job_submit_file(inp_str) ==
    LET started == <<>> \o inp_str
        submit_str == << <<>> >>
    IN  submit_str \o << <<>> >>

write_cube_imaging_submit_file(submit_args_dict, use_default_dict) ==
    IF ~daghandler_compiles
    THEN [err |-> "SyntaxError", submit_args |-> <<>>, file |-> <<>>]
    ELSE LET merged == cube_submit_args(submit_args_dict, use_default_dict)
         IN  IF merged.err # ""
             THEN [err |-> merged.err, submit_args |-> <<>>, file |-> <<>>]
             ELSE [err |-> "", submit_args |-> merged.submit_args,
                   file |-> write_job_submit_file(
                                submit_str_of(merged.submit_args))]

-----------------------------------------------------------------------------
(* The inputs the calls are made with *)

\* "" is the omitted layer_name; layer_2 is an explicit name of the default form
LayerNames == {"", "L1", "layer_2"}

\* "" is the omitted parent; nope is never the name of a layer
ParentNames == {"", "L1", "layer_2", "nope"}

\* submit_vars / layer_vars: none, and two parameter sets
VarLists == {<<>>, << << <<"x", <<"1">>>> >>, << <<"x", <<"2">>>> >> >>}

TestSubmit == Submit(<< <<"executable", <<"test.py">>>> >>)

\* the parameter sets of the layers of the layer graph
GraphVars == {<< << <<"x", <<"1">>>> >>, << <<"x", <<"2">>>> >> >>}

\* dag_layer's arguments: every combination with a Submit, and an object that
\* is no Submit with an omitted parent, with an unknown parent and with the
\* layer's own name for the parent
DagLayerCalls ==
    ({TestSubmit} \X GraphVars \X LayerNames \X ParentNames)
    \cup ({NotSubmit} \X GraphVars \X {"L1"} \X {"", "L1", "nope"})

\* func_to_layer's arguments in the layer graph: the function f with the
\* default script and options, and a str in place of the function
FuncToLayerCalls ==
    ({"f"} \X GraphVars \X {"", "L1"} \X {"", "L1", "nope"})
    \cup ({"notfn"} \X GraphVars \X {"L1"} \X {"", "nope"})

\* func_to_layer's arguments beside descriptor synthesis: calls that add no
\* layer, with a str in place of the function and with an unknown parent
ScriptLayerCalls ==
    ({"notfn"} \X GraphVars \X {"L1"} \X {"", "nope"})
    \cup ({"f", "g"} \X GraphVars \X {""} \X {"nope"})

\* the layers of the workflows that are written: L1 and L2, alone or under L1
WriteDagLayerCalls == {TestSubmit} \X GraphVars \X {"L1", "L2"} \X {"", "L1"}

\* ... and the function f as the layer L2, alone or under L1 or under itself,
\* and with the default layer_vars, the empty list
WriteFuncToLayerCalls ==
    ({"f"} \X GraphVars \X {"L2"} \X {"", "L1", "L2"})
    \cup {<<"f", <<>>, "L2", "">>}

\* the decorator's arguments: layer_name and parent_layer_name
DecoratorCalls == {<<"", "">>, <<"L1", "">>, <<"L1", "nope">>, <<"L2", "L1">>}

\* py_script_name: omitted, relative, absolute, and inside a missing directory
ScriptNames ==
    {<<>>, <<"s.py">>, <<"/", "abs", "s.py">>, <<"sub", "s.py">>}

\* submit_args: none, an absolute executable, and two options of which one
\* overrides the default
SubmitArgs ==
    {<<>>,
     << <<"executable", <<"/", "bin", "run">>>> >>,
     << <<"request_cpus", <<"2">>>>, <<"executable", <<"run.sh">>>> >>}

\* submit_args_dict: none, and an override of a default with a new option
CubeArgs ==
    {<<>>, << <<"niter", <<"5">>>>, <<"universe", <<"vanilla">>>> >>}

\* the arguments of a direct call of a decorated function
CallArgs == {<<>>, <<42>>}

\* the keyword arguments of such a call: none, one that func_to_submit_obj
\* does not take, and one that it takes
CallKwargs ==
    {<<>>, << <<"x", <<"1">>>> >>, << <<"py_script_name", <<"s.py">>>> >>}

-----------------------------------------------------------------------------
(* Dagger.__init__ and Dagger._setup *)

\* a buggy clearing: everything below dag_dir goes, as with shutil.rmtree
\* followed by makedirs
_setup_rmtree(s, overwrite_dag_dir) ==
    LET found == [dirs |-> s.dirs, files |-> s.files]
        made == IF ~exists(found, dag_dir) THEN makedirs(found, dag_dir)
                ELSE found
        below(p) == Len(p) > Len(dag_dir)
                    /\ SubSeq(p, 1, Len(dag_dir)) = dag_dir
    IN  IF ~overwrite_dag_dir
        THEN Return([s EXCEPT !.dirs = made.dirs], NoRet)
        ELSE Return([s EXCEPT
                        !.dirs = {p \in made.dirs : ~below(p)},
                        !.files = [p \in {q \in DOMAIN s.files : ~below(q)}
                                      |-> s.files[p]]],
                    NoRet)

\* self._setup(): dag_dir is made when no such path exists; with
\* overwrite_dag_dir the entries of dag_dir that are regular files are
\* removed.  os.listdir raises when dag_dir is not a directory.
_setup(s, overwrite_dag_dir) ==
    LET found == [dirs |-> s.dirs, files |-> s.files]
        made == IF ~exists(found, dag_dir) THEN makedirs(found, dag_dir)
                ELSE found
    IN  IF ~overwrite_dag_dir
        THEN Return([s EXCEPT !.dirs = made.dirs], NoRet)
        ELSE IF dag_dir \notin made.dirs
        THEN Raise([s EXCEPT !.dirs = made.dirs], "NotADirectoryError")
        ELSE
        LET file_paths == {join(dag_dir, <<file>>) :
                              file \in listdir(made, dag_dir)}
            cleared == remove(made, {file_path \in file_paths :
                                        isfile(made, file_path)})
        IN  Return([s EXCEPT !.dirs = cleared.dirs, !.files = cleared.files],
                   NoRet)

\* Dagger(dag_dir, dag_name, overwrite_dag_dir) in the file system fs
__init__(fs, overwrite_dag_dir) ==
    _setup([layer_list |-> <<>>, job_list |-> <<>>, job_names |-> <<>>,
            nlayers |-> 1, submit_functions |-> <<>>,
            dag |-> [nodes |-> <<>>, edges |-> {}],
            files |-> fs.files, dirs |-> fs.dirs],
           overwrite_dag_dir)

-----------------------------------------------------------------------------
(* The state machine *)

NoCall ==
    [op |-> "", func |-> "", submit_obj |-> "", layer_name |-> "",
     parent_layer_name |-> "",
     py_script_name |-> <<>>, submit_args |-> <<>>, args |-> <<>>,
     err |-> "", ret |-> NoRet]

Init ==
    /\ layer_list = <<>>
    /\ job_list = <<>>
    /\ job_names = <<>>
    /\ nlayers = 1
    /\ submit_functions = <<>>
    /\ dag = [nodes |-> <<>>, edges |-> {}]
    /\ files = <<>>
    /\ dirs = Dirs
    /\ decorated = <<>>
    /\ cube = [err |-> "", submit_args |-> <<>>, file |-> <<>>]
    /\ calls = <<>>
    /\ last = NoCall

\* the call returns or raises: the session is what the call left.  The
\* history gains, for a call that returned a layer, the layer's name with the
\* layer_name and the parent_layer_name the call was given.
Commit(r, call, layer_name, parent_layer_name) ==
    /\ layer_list' = r.s.layer_list
    /\ job_list' = r.s.job_list
    /\ job_names' = r.s.job_names
    /\ nlayers' = r.s.nlayers
    /\ submit_functions' = r.s.submit_functions
    /\ dag' = r.s.dag
    /\ files' = r.s.files
    /\ dirs' = r.s.dirs
    /\ calls' = IF r.err = "" /\ r.ret.kind = "NodeLayer"
                THEN Append(calls, [name |-> r.ret.val.name,
                                    layer_name |-> layer_name,
                                    parent_layer_name |-> parent_layer_name])
                ELSE calls
    /\ last' = [call EXCEPT !.err = r.err, !.ret = r.ret]

\* the bounds of the model: a call that would pass them is not made
WithinBounds(r) ==
    /\ Len(r.s.layer_list) <= MaxLayers
    /\ Cardinality(DOMAIN r.s.files) <= MaxScripts

parse_function_call(func, trim_whitespace) ==
    IF ~callable(func) THEN [err |-> "TypeError", ret |-> NoRet]
    ELSE [err |-> "",
          ret |-> [kind |-> "lines",
                   val |-> parse_function(func, trim_whitespace)]]

\* a session in which the function of source src has been defined
InitParse ==
    \E src \in Sources :
        /\ layer_list = <<>>
        /\ job_list = <<>>
        /\ job_names = <<>>
        /\ nlayers = 1
        /\ submit_functions = <<>>
        /\ dag = [nodes |-> <<>>, edges |-> {}]
        /\ files = <<>>
        /\ dirs = Dirs
        /\ decorated = <<>>
        /\ cube = [err |-> "", submit_args |-> <<>>, file |-> <<>>]
        /\ calls = <<>>
        /\ last = [NoCall EXCEPT !.op = "def", !.args = <<src>>]

\* what a file holds before a session is constructed: nothing, or one line
OldTexts == {<<>>, << <<"x">> >>}

\* the regular files that may exist before a session is constructed: one
\* directly inside dag_dir, one in a subdirectory of it, one outside it, and
\* one in the place of dag_dir itself
OldFiles ==
    {<<"dag", "a.py">>, <<"dag", "sub", "c.py">>, <<"other", "x">>, dag_dir}

\* the directories that may exist before a session is constructed
OldDirs == {dag_dir, <<"dag", "sub">>, <<"other">>}

\* the file systems a session may be constructed in: every entry lies in a
\* directory that exists, and no path is a directory and a file at once
FileSystems ==
    {fs \in UNION {[dirs : {D}, files : [F -> OldTexts]] :
                      D \in SUBSET OldDirs, F \in SUBSET OldFiles} :
        /\ fs.dirs \cap DOMAIN fs.files = {}
        /\ \A p \in fs.dirs \cup DOMAIN fs.files :
              Len(p) > 1 => dirname(p) \in fs.dirs}

\* no session is constructed yet, in any of the file systems
InitSetup ==
    \E fs \in FileSystems :
        /\ layer_list = <<>>
        /\ job_list = <<>>
        /\ job_names = <<>>
        /\ nlayers = 1
        /\ submit_functions = <<>>
        /\ dag = [nodes |-> <<>>, edges |-> {}]
        /\ files = fs.files
        /\ dirs = fs.dirs
        /\ decorated = <<>>
        /\ cube = [err |-> "", submit_args |-> <<>>, file |-> <<>>]
        /\ calls = <<>>
        /\ last = NoCall

\* parse_function(func, trim_whitespace=...) on the function that was defined
ParseFunctionSource ==
    /\ last.op = "def"
    /\ \E trim_whitespace \in BOOLEAN :
           last' = [last EXCEPT
                       !.op = "parse_function",
                       !.args = <<last.args[1], trim_whitespace>>,
                       !.ret = [kind |-> "lines",
                                val |-> parse_lines(source_split(last.args[1]),
                                                    trim_whitespace)]]
    /\ UNCHANGED <<layer_list, job_list, job_names, nlayers, submit_functions,
                   dag, files, dirs, decorated, cube, calls>>

ParseFunction ==
    \E func \in Objects, trim_whitespace \in BOOLEAN :
        LET r == parse_function_call(func, trim_whitespace)
        IN  /\ last' = [NoCall EXCEPT !.op = "parse_function", !.func = func,
                                      !.err = r.err, !.ret = r.ret]
            /\ UNCHANGED <<layer_list, job_list, job_names, nlayers,
                           submit_functions, dag, files, dirs, decorated,
                           cube, calls>>

FuncToSubmitObj ==
    \E func \in Objects, py_script_name \in ScriptNames,
       submit_args \in SubmitArgs :
        LET r == func_to_submit_obj(Self, func, py_script_name, submit_args)
        IN  /\ WithinBounds(r)
            /\ Commit(r, [NoCall EXCEPT !.op = "func_to_submit_obj",
                                        !.func = func,
                                        !.py_script_name = py_script_name,
                                        !.submit_args = submit_args],
                      "", "")
            /\ UNCHANGED <<decorated, cube, dirs>>

\* dag_layer(submit_obj=c[1], submit_vars=c[2], layer_name=c[3],
\*           parent_layer_name=c[4])
DagLayerCall(c) ==
    LET r == dag_layer(Self, c[1], c[2], c[3], c[4])
    IN  /\ WithinBounds(r)
        /\ Commit(r, [NoCall EXCEPT !.op = "dag_layer",
                                    !.submit_obj = c[1].kind,
                                    !.layer_name = c[3],
                                    !.parent_layer_name = c[4]],
                  c[3], c[4])
        /\ UNCHANGED <<decorated, cube, dirs>>

DagLayerOver(Calls) == \E c \in Calls : DagLayerCall(c)

\* func_to_layer(func=c[1], layer_vars=c[2], layer_name=c[3],
\*               parent_layer_name=c[4]), the script name and the options
\* left at their defaults
FuncToLayerCall(c) ==
    LET r == func_to_layer(Self, c[1], <<>>, <<>>, c[3], c[4], c[2])
    IN  /\ WithinBounds(r)
        /\ Commit(r, [NoCall EXCEPT !.op = "func_to_layer",
                                    !.func = c[1],
                                    !.layer_name = c[3],
                                    !.parent_layer_name = c[4]],
                  c[3], c[4])
        /\ UNCHANGED <<decorated, cube, dirs>>

FuncToLayerOver(Calls) == \E c \in Calls : FuncToLayerCall(c)

\* @dag.add_func_to_layer(layer_name, parent_layer_name=...) over def func
Decorate ==
    \E func \in Objects, c \in DecoratorCalls :
        LET layer_name == c[1]
            parent_layer_name == c[2]
            outer == IF parent_layer_name = "" THEN <<>>
                     ELSE << <<"parent_layer_name", parent_layer_name>> >>
            r == decorator(Self, func, layer_name, outer)
        IN  /\ Commit(r, [NoCall EXCEPT !.op = "decorate",
                                        !.func = func,
                                        !.layer_name = layer_name,
                                        !.parent_layer_name = parent_layer_name],
                      layer_name, parent_layer_name)
            /\ decorated' =
                   IF r.err # "" THEN decorated
                   ELSE [f \in DOMAIN decorated \cup {func} |->
                            IF f = func
                            THEN [func |-> func, layer_name |-> layer_name,
                                  kwargs |-> outer]
                            ELSE decorated[f]]
            /\ UNCHANGED <<cube, dirs>>

\* func(*args, **kwargs) on a decorated func
CallDecoratedCall(func, args, kwargs) ==
    LET r == wrapper(Self, decorated[func], args, kwargs)
    IN  /\ WithinBounds(r)
        /\ Commit(r, [NoCall EXCEPT !.op = "call",
                                    !.func = func,
                                    !.args = args],
                  decorated[func].layer_name, "")
        /\ UNCHANGED <<decorated, cube, dirs>>

CallDecorated ==
    \E func \in DOMAIN decorated, args \in CallArgs, kwargs \in CallKwargs :
        CallDecoratedCall(func, args, kwargs)

WriteDag ==
    /\ Commit(write_dag(Self), [NoCall EXCEPT !.op = "write_dag"], "", "")
    /\ UNCHANGED <<decorated, cube, dirs>>

WriteCubeImagingSubmitFile ==
    \E submit_args_dict \in CubeArgs, use_default_dict \in BOOLEAN :
        /\ cube' = write_cube_imaging_submit_file(submit_args_dict,
                                                  use_default_dict)
        /\ last' = [NoCall EXCEPT
                       !.op = "write_cube_imaging_submit_file",
                       !.submit_args = submit_args_dict,
                       !.args = <<use_default_dict>>,
                       !.err = cube'.err]
        /\ UNCHANGED <<layer_list, job_list, job_names, nlayers,
                       submit_functions, dag, files, dirs, decorated, calls>>

\* dagger = Dagger(dag_dir, dag_name, overwrite_dag_dir): the session is the
\* new object when the constructor returns, and the one there was when it
\* raises.  last.args holds the argument and the file system that was found.
ConstructWith(overwrite_dag_dir) ==
    LET found == [dirs |-> dirs, files |-> files]
        r == __init__(found, overwrite_dag_dir)
        bound == IF r.err = "" THEN r.s ELSE Self
    IN  /\ layer_list' = bound.layer_list
        /\ job_list' = bound.job_list
        /\ job_names' = bound.job_names
        /\ nlayers' = bound.nlayers
        /\ submit_functions' = bound.submit_functions
        /\ dag' = bound.dag
        /\ files' = r.s.files
        /\ dirs' = r.s.dirs
        /\ calls' = IF r.err = "" THEN <<>> ELSE calls
        /\ last' = [NoCall EXCEPT !.op = "Dagger",
                                  !.args = <<overwrite_dag_dir, found>>,
                                  !.err = r.err]
        /\ UNCHANGED <<decorated, cube>>

Construct == \E overwrite_dag_dir \in BOOLEAN : ConstructWith(overwrite_dag_dir)

\* dag_layer on the session that was constructed
DagLayerConstructed ==
    /\ last.op # ""
    /\ ~(last.op = "Dagger" /\ last.err # "")
    /\ LET r == dag_layer(Self, TestSubmit, <<>>, "L1", "")
       IN  /\ Len(r.s.layer_list) <= MaxLayers
           /\ Commit(r, [NoCall EXCEPT !.op = "dag_layer",
                                       !.submit_obj = TestSubmit.kind,
                                       !.layer_name = "L1"],
                     "L1", "")
           /\ UNCHANGED <<decorated, cube>>

DagLayer == DagLayerOver(DagLayerCalls)

FuncToLayer == FuncToLayerOver(FuncToLayerCalls)

\* the layer graph: layers are added by dag_layer and by func_to_layer
Next == DagLayer \/ FuncToLayer

Spec == Init /\ [][Next]_vars

\* descriptor synthesis: scripts, descriptors and submit files
FuncToLayerFailing == FuncToLayerOver(ScriptLayerCalls)

NextScripts ==
    \/ ParseFunction
    \/ FuncToSubmitObj
    \/ FuncToLayerFailing
    \/ WriteCubeImagingSubmitFile

SpecScripts == Init /\ [][NextScripts]_vars

\* writing the workflow: layers are added and the DAG is written
DagLayerToWrite == DagLayerOver(WriteDagLayerCalls)

FuncToLayerToWrite == FuncToLayerOver(WriteFuncToLayerCalls)

NextWrite == DagLayerToWrite \/ FuncToLayerToWrite \/ WriteDag

SpecWrite == Init /\ [][NextWrite]_vars

\* parsing: a function is defined and its source is parsed
NextParse == ParseFunctionSource

SpecParse == InitParse /\ [][NextParse]_vars

\* the decorator style: functions are decorated and then called
NextDeco == Decorate \/ CallDecorated

SpecDeco == Init /\ [][NextDeco]_vars

\* construction: sessions are constructed in a file system that holds
\* entries already, and layers are added to them
NextSetup == Construct \/ DagLayerConstructed

SpecSetup == InitSetup /\ [][NextSetup]_vars

-----------------------------------------------------------------------------
(* The layer graph *)

\* the part of the session a layer lives in
graph == <<layer_list, job_list, job_names, nlayers>>

UnknownParent(name) == name # "" /\ ~In(name, layer_list)

\* C1 as stated: every dag_layer call whose non-empty parent_layer_name is not
\* in the layer list raises ValueError and leaves the layer list, the job
\* list, the job-name list and _nlayers as they were.
C1_UnknownParentAlwaysValueError ==
    [][\A c \in DagLayerCalls :
          (UnknownParent(c[4]) /\ DagLayerCall(c))
              => (last'.err = "ValueError" /\ UNCHANGED graph)]_vars

\* C1, amended: every dag_layer call with an htcondor2.Submit descriptor whose
\* non-empty parent_layer_name is not in the layer list raises ValueError and
\* leaves the layer list, the job list, the job-name list and _nlayers as they
\* were, however often it is repeated; with a descriptor that is no Submit the
\* call raises TypeError instead and leaves them unchanged as well.
C1_UnknownParentRaisesAndLeavesGraph ==
    [][\A c \in DagLayerCalls :
          (UnknownParent(c[4]) /\ DagLayerCall(c))
              => /\ last'.err = IF c[1].kind = "Submit" THEN "ValueError"
                                ELSE "TypeError"
                 /\ UNCHANGED graph
                 /\ dag' = dag]_vars

\* a dag_layer call has failed on its parent in a graph that holds layers
C1_Witness ==
    /\ last.op = "dag_layer"
    /\ last.submit_obj = "Submit"
    /\ UnknownParent(last.parent_layer_name)
    /\ last.err = "ValueError"
    /\ Len(layer_list) >= 2

\* C2: the layer list has exactly one entry per successful dag_layer /
\* func_to_layer call, in call order: entry i is the name of the layer the
\* i-th successful call returned, and a failed call has added no entry.  The
\* layer names of the calls need not even be distinct.
C2_OneEntryPerSuccessfulCall ==
    /\ Len(layer_list) = Len(calls)
    /\ \A i \in 1..Len(calls) :
           /\ layer_list[i] = calls[i].name
           /\ calls[i].layer_name # "" => layer_list[i] = calls[i].layer_name

\* three calls with pairwise distinct names have succeeded, one has failed
C2_Witness ==
    /\ Len(calls) = 3
    /\ \A i, j \in 1..3 : i # j => calls[i].name # calls[j].name
    /\ last.err # ""

\* every layer attached with a parent has, as parent, a layer at a smaller
\* position that bears the requested name, and every edge of the DAG runs
\* from a smaller to a larger position
ParentsBefore ==
    /\ \A i \in 1..Len(job_list) :
           IF calls[i].parent_layer_name = "" THEN job_list[i].parent = 0
           ELSE /\ job_list[i].parent \in 1..(i - 1)
                /\ layer_list[job_list[i].parent] = calls[i].parent_layer_name
                /\ <<job_list[i].parent, i>> \in dag.edges
    /\ \A e \in dag.edges : e[1] < e[2]

\* the layers added so far stay where and what they are
LayersKept ==
    /\ Len(layer_list') >= Len(layer_list)
    /\ \A i \in 1..Len(layer_list) :
           /\ layer_list'[i] = layer_list[i]
           /\ job_list'[i] = job_list[i]
           /\ job_names'[i] = job_names[i]
    /\ dag.edges \subseteq dag'.edges

\* C3: in every reachable state each layer that was attached with a parent
\* has that parent at a strictly smaller position of the layer list than its
\* own, so the parent/child relation has no back-edge and no cycle; and no
\* step removes or changes a layer that was added.
C3_ParentsPrecedeAndLayersStay ==
    ParentsBefore /\ [][ParentsBefore' /\ LayersKept]_vars

\* a chain L1 -> child -> grandchild has been built
C3_Witness ==
    /\ Len(job_list) = 3
    /\ job_list[2].parent = 1
    /\ job_list[3].parent = 2

\* C4: from a fresh Dagger, N successful dag_layer calls none of which
\* supplies a layer_name give the layers layer_1, ..., layer_N in creation
\* order, no two of them equal.
C4_DefaultNamesInOrder ==
    (\A i \in 1..Len(calls) : calls[i].layer_name = "")
        => /\ \A i \in 1..Len(layer_list) :
                  layer_list[i] = "layer_" \o ToString(i)
           /\ \A i, j \in 1..Len(layer_list) :
                  i # j => layer_list[i] # layer_list[j]

\* three layers have been added without a layer_name
C4_Witness ==
    /\ Len(layer_list) = 3
    /\ \A i \in 1..3 : calls[i].layer_name = ""
    /\ last.op = "dag_layer"

\* C7: func_to_layer with a parent_layer_name that is not in the layer list
\* fails with ValueError and leaves the whole session as it was: the layer
\* list, the job list and the counter, and also the descriptor registry and
\* the script files of dag_dir.
C7_FailedFuncToLayerLeavesSession ==
    [][\A c \in FuncToLayerCalls :
          (callable(c[1]) /\ UnknownParent(c[4]) /\ FuncToLayerCall(c))
              => /\ last'.err = "ValueError"
                 /\ UNCHANGED graph
                 /\ submit_functions' = submit_functions
                 /\ files' = files]_vars

-----------------------------------------------------------------------------
(* The decorator *)

\* C5: a function registered through the layer decorator, when afterwards
\* called directly with arguments, returns what the original function returns
\* for those arguments.
C5_DecoratedCallReturnsOriginalResult ==
    last.op = "call"
        => /\ last.err = ""
           /\ last.ret.kind = "value"
           /\ last.ret = original_result(last.func, last.args)

\* C6: the decorator registers the layer when it is applied: right after the
\* decoration the layer name is in the layer list and the function's name in
\* the registry, and a later call of the decorated function adds no layer and
\* changes neither the layer list, the counter nor the registry.
C6_RegisteredAtDecorationTime ==
    [][/\ (/\ last'.op = "decorate"
           /\ last' # last
           /\ last'.err = ""
           /\ last'.layer_name # ""
           /\ last'.parent_layer_name = "")
              => /\ In(last'.layer_name, layer_list')
                 /\ last'.func \in DOMAIN submit_functions'
       /\ (last'.op = "call" /\ last' # last)
              => /\ layer_list' = layer_list
                 /\ nlayers' = nlayers
                 /\ submit_functions' = submit_functions]_vars

-----------------------------------------------------------------------------
(* Descriptor synthesis *)

session == <<layer_list, job_list, job_names, nlayers, submit_functions, dag,
             files>>

\* C8: parse_function, func_to_submit_obj and func_to_layer given a
\* non-callable raise TypeError before any side effect: no script file is
\* written, no descriptor is registered, and the layer list, the job list and
\* the counter are unchanged.
C8_NonCallableRaisesBeforeSideEffects ==
    [][(/\ last'.op \in {"parse_function", "func_to_submit_obj",
                         "func_to_layer"}
        /\ last'.func \notin Funcs)
           => (last'.err = "TypeError" /\ UNCHANGED session)]_vars

\* each of the three has been given a str, in a session that holds files
C8_Witness ==
    /\ last.op = "func_to_submit_obj"
    /\ last.func = "notfn"
    /\ last.err = "TypeError"
    /\ Cardinality(DOMAIN files) = 2
    /\ DOMAIN submit_functions = Funcs

executable_of(submit_obj) == DictGet(submit_obj.opts, "executable")

IsMerge(m, d, o) ==
    /\ DictKeys(m) = DictKeys(d) \cup DictKeys(o)
    /\ Len(m) = Cardinality(DictKeys(m))
    /\ \A k \in DictKeys(o) : DictGet(m, k) = DictGet(o, k)
    /\ \A k \in DictKeys(d) \ DictKeys(o) : DictGet(m, k) = DictGet(d, k)

\* C10: the option set of a descriptor is the defaults overridden by the
\* caller's options, for func_to_submit_obj and for
\* write_cube_imaging_submit_file when the defaults are in use; and
\* {a:1,b:2} overridden by {b:3,c:4} is {a:1,b:3,c:4}.
C10_OptionsAreDefaultsOverridden ==
    /\ DictUpdate(<< <<"a", 1>>, <<"b", 2>> >>, << <<"b", 3>>, <<"c", 4>> >>)
           = << <<"a", 1>>, <<"b", 3>>, <<"c", 4>> >>
    /\ (last.op = "func_to_submit_obj" /\ last.err = "")
           => IsMerge(last.ret.opts,
                      << <<"executable",
                           basename(script_path(last.func,
                                                last.py_script_name))>> >>,
                      last.submit_args)
    /\ (last.op = "write_cube_imaging_submit_file" /\ last.args = <<TRUE>>)
           => /\ cube.err = ""
              /\ IsMerge(cube.submit_args, submit_args_default,
                         last.submit_args)

\* what C10 says of func_to_submit_obj alone
C10_FuncToSubmitObjPart ==
    (last.op = "func_to_submit_obj" /\ last.err = "")
        => IsMerge(last.ret.opts,
                   << <<"executable",
                        basename(script_path(last.func,
                                             last.py_script_name))>> >>,
                   last.submit_args)

\* the descriptor func_to_submit_obj builds from the arguments of the last call
built_by(call) ==
    Submit(submit_dict(script_path(call.func, call.py_script_name),
                       call.submit_args))

\* C11: after every call that builds a descriptor, the registry maps the
\* function's name to the descriptor that call built: a name registered again
\* has its entry replaced without error, the names of the registry are the
\* earlier names and this one (one entry per distinct name), and the entry of
\* every other name is what it was.
C11_RegistryHoldsLatestDescriptor ==
    [][(last'.op = "func_to_submit_obj" /\ callable(last'.func)
            /\ ~open_fails(Self, script_path(last'.func, last'.py_script_name)))
          => /\ last'.err = ""
             /\ last'.ret = built_by(last')
             /\ submit_functions'[last'.func] = last'.ret
             /\ DOMAIN submit_functions'
                    = DOMAIN submit_functions \cup {last'.func}
             /\ \A n \in DOMAIN submit_functions \ {last'.func} :
                    submit_functions'[n] = submit_functions[n]]_vars

\* f was registered, and registered again with other options: its two script
\* files exist, and the registry holds one entry, the later descriptor
C11_Witness ==
    /\ last.op = "func_to_submit_obj"
    /\ last.func = "f"
    /\ last.err = ""
    /\ Cardinality(DOMAIN files) = 2
    /\ \A p \in DOMAIN files : files[p] = parse_function("f", TRUE)
    /\ DOMAIN submit_functions = {"f"}
    /\ submit_functions["f"] = built_by(last)
    /\ DictGet(submit_functions["f"].opts, "executable") = <<"run.sh">>

-----------------------------------------------------------------------------
(* The layer graph, continued *)

\* a call that names the new layer itself as its parent, before it exists
SelfParent(c) == c[3] # "" /\ c[3] = c[4] /\ ~In(c[3], layer_list)

\* C12 as stated: every dag_layer call with layer_name and parent_layer_name
\* both equal to a name that is not in the layer list raises ValueError and
\* adds no layer.
C12_SelfParentAlwaysValueError ==
    [][\A c \in DagLayerCalls :
          (SelfParent(c) /\ DagLayerCall(c))
              => (last'.err = "ValueError" /\ UNCHANGED graph)]_vars

\* C12, amended: every dag_layer call with an htcondor2.Submit descriptor and
\* with layer_name and parent_layer_name both equal to a name that is not in
\* the layer list raises ValueError and adds no layer; with a descriptor that
\* is no Submit it raises TypeError and adds no layer either.
C12_SelfParentRaisesAndAddsNoLayer ==
    [][\A c \in DagLayerCalls :
          (SelfParent(c) /\ DagLayerCall(c))
              => /\ last'.err = IF c[1].kind = "Submit" THEN "ValueError"
                                ELSE "TypeError"
                 /\ UNCHANGED graph
                 /\ dag' = dag]_vars

\* a layer was named as its own parent in a graph that holds other layers
C12_Witness ==
    /\ last.op = "dag_layer"
    /\ last.submit_obj = "Submit"
    /\ last.layer_name = "layer_2"
    /\ last.parent_layer_name = "layer_2"
    /\ last.err = "ValueError"
    /\ Len(layer_list) = 2
    /\ ~In("layer_2", layer_list)

-----------------------------------------------------------------------------
(* Writing the workflow *)

\* the layer at position i of the job list is a node of the DAG, and when it
\* was attached with a parent: the node of that parent comes before it, and
\* the edges into it are the one edge from that parent
InDagUnderParent(i) ==
    LET job == job_list[i]
    IN  /\ job.id \in 1..Len(dag.nodes)
        /\ dag.nodes[job.id] = job
        /\ IF calls[i].parent_layer_name = ""
           THEN {e \in dag.edges : e[2] = job.id} = {}
           ELSE /\ job.parent \in 1..(job.id - 1)
                /\ dag.nodes[job.parent].name = calls[i].parent_layer_name
                /\ {e \in dag.edges : e[2] = job.id}
                       = {<<job.parent, job.id>>}

\* the written file lists the parent's JOB line before the child's and holds
\* the PARENT .. CHILD line of the two
InFileUnderParent(i) ==
    LET job == job_list[i]
        text == files[dag_file]
    IN  calls[i].parent_layer_name # ""
            => /\ text.nodes[job.parent] = <<"JOB", calls[i].parent_layer_name>>
               /\ text.nodes[job.id] = <<"JOB", job.name>>
               /\ <<"PARENT", calls[i].parent_layer_name, "CHILD", job.name>>
                      \in text.edges

\* C13: when write_dag has run, every layer that was attached with a parent is
\* in the DAG that was written, after its parent, with an edge from exactly
\* that parent; so L1, then L2 under L1, is written as L1 before L2 with the
\* edge L1 -> L2.
C13_ParentsWrittenWithEdges ==
    last.op = "write_dag"
        => /\ last.err = ""
           /\ dag_file \in DOMAIN files
           /\ \A i \in 1..Len(job_list) :
                  InDagUnderParent(i) /\ InFileUnderParent(i)

\* L1 and L2 under L1 were registered and the workflow was written
C13_Witness ==
    /\ last.op = "write_dag"
    /\ layer_list = <<"L1", "L2">>
    /\ job_list[2].parent = 1
    /\ "f" \in DOMAIN submit_functions
    /\ files[dag_file].nodes = << <<"JOB", "L1">>, <<"JOB", "L2">> >>
    /\ files[dag_file].edges = {<<"PARENT", "L1", "CHILD", "L2">>}

\* C19: write_dag leaves the layer list, the job list, the job-name list,
\* _nlayers and the descriptor registry (and the DAG) as they were.
C19_WriteDagReadsOnly ==
    [][last'.op = "write_dag"
          => /\ UNCHANGED <<layer_list, job_list, job_names, nlayers,
                            submit_functions>>
             /\ dag' = dag
             /\ files'[dag_file] = dag_file_text(dag)]_vars

\* a workflow of three layers and a registered function has been written
C19_Witness ==
    /\ last.op = "write_dag"
    /\ Len(layer_list) = 3
    /\ nlayers = 4
    /\ DOMAIN submit_functions = {"f"}
    /\ files[dag_file] = dag_file_text(dag)

-----------------------------------------------------------------------------
(* Parsing a function *)

indent_of(line) == Len(line) - Len(lstrip(line))

\* the lines without the empty lines at their end
RECURSIVE rstrip_lines(_)
rstrip_lines(lines) ==
    IF lines # <<>> /\ lines[Len(lines)] = <<>>
    THEN rstrip_lines(SubSeq(lines, 1, Len(lines) - 1))
    ELSE lines

\* the body lines with their common leading indentation removed
dedented_body(src) ==
    LET body == body_lines(src)
        common == CHOOSE m \in {indent_of(body[i]) : i \in 1..Len(body)} :
                      \A i \in 1..Len(body) : m <= indent_of(body[i])
    IN  [i \in 1..Len(body) |-> slice_from(body[i], common)]

\* C14: parse_function with trim_whitespace=True returns exactly the body
\* lines of the function, in order, without any line of the signature, cut by
\* their common indentation and with no other character dropped (the empty
\* line after the last newline of the source is not counted).
C14_ParseFunctionReturnsDedentedBody ==
    (last.op = "parse_function" /\ Len(last.args) = 2 /\ last.args[2])
        => rstrip_lines(last.ret.val) = dedented_body(last.args[1])

\* what C14 says of the functions defined on one line whose body holds no
\* line left of its first line
C14_OneLineSignaturePart ==
    (/\ last.op = "parse_function" /\ Len(last.args) = 2 /\ last.args[2]
     /\ ~last.args[1].multiline
     /\ \A i \in 1..Len(last.args[1].body) : last.args[1].body[i] # "c")
        => rstrip_lines(last.ret.val) = dedented_body(last.args[1])

-----------------------------------------------------------------------------
(* Names and the counter *)

\* C15: in every reachable state the names of the layer list are pairwise
\* distinct.
C15_LayerNamesDistinct ==
    \A i, j \in 1..Len(layer_list) : i # j => layer_list[i] # layer_list[j]

\* _nlayers is 1 plus the number of layers, and the three lists are as long
CounterCountsLayers ==
    /\ nlayers = 1 + Len(layer_list)
    /\ Len(job_list) = Len(layer_list)
    /\ Len(job_names) = Len(layer_list)

\* C16: in every reachable state _nlayers is 1 plus the number of layers that
\* were added, and the layer list, the job list and the job-name list have
\* _nlayers - 1 entries; a successful call adds exactly one to _nlayers, with
\* a supplied name as with a generated one, and a failed call adds nothing.
C16_CounterIsOnePlusLayers ==
    /\ CounterCountsLayers
    /\ [][/\ CounterCountsLayers'
          /\ last'.err = "" => nlayers' = nlayers + 1
          /\ last'.err # "" => nlayers' = nlayers]_vars

\* layers were added with supplied and with generated names, and a call failed
C16_Witness ==
    /\ Len(layer_list) = 3
    /\ nlayers = 4
    /\ \E i \in 1..3 : calls[i].layer_name = ""
    /\ \E i \in 1..3 : calls[i].layer_name # ""
    /\ last.err = "ValueError"

-----------------------------------------------------------------------------
(* The decorator and func_to_layer *)

\* the parent_layer_name a wrapper was decorated with
decorated_parent(w) ==
    IF DictHas(w.kwargs, "parent_layer_name")
    THEN DictGet(w.kwargs, "parent_layer_name") ELSE ""

\* C17: registering a function through the decorator (the decoration and the
\* call that, in this code, performs the registration) leaves the session as
\* func_to_layer does with the same function, layer_name, parent_layer_name
\* and parameter sets: the same layer list, the same layers with the same
\* parents and parameter sets, the same edges and the same registry.
C17_DecoratorAgreesWithFuncToLayer ==
    [][\A func \in Funcs, args \in CallArgs :
          (func \in DOMAIN decorated /\ CallDecoratedCall(func, args, <<>>))
              => LET w == decorated[func]
                     r == func_to_layer(Self, func, <<>>, <<>>, w.layer_name,
                                        decorated_parent(w), << <<>> >>)
                 IN  /\ last'.err = r.err
                     /\ layer_list' = r.s.layer_list
                     /\ job_list' = r.s.job_list
                     /\ dag' = r.s.dag
                     /\ submit_functions' = r.s.submit_functions]_vars

\* what C17 says of the decorations that name no parent
C17_WithoutParentPart ==
    [][\A func \in Funcs, args \in CallArgs :
          (/\ func \in DOMAIN decorated
           /\ decorated_parent(decorated[func]) = ""
           /\ CallDecoratedCall(func, args, <<>>))
              => LET w == decorated[func]
                     r == func_to_layer(Self, func, <<>>, <<>>, w.layer_name,
                                        "", << <<>> >>)
                 IN  /\ last'.err = r.err
                     /\ layer_list' = r.s.layer_list
                     /\ job_list' = r.s.job_list
                     /\ dag' = r.s.dag
                     /\ submit_functions' = r.s.submit_functions]_vars

\* C18: applying the decorator with a parent_layer_name that is not in the
\* layer list raises ValueError at decoration time, and the decoration adds
\* no layer.
C18_DecoratorRejectsUnknownParent ==
    [][(/\ last'.op = "decorate"
        /\ last' # last
        /\ callable(last'.func)
        /\ UnknownParent(last'.parent_layer_name))
           => (last'.err = "ValueError" /\ UNCHANGED graph)]_vars

-----------------------------------------------------------------------------
(* The script file *)

\* an interpreter directive: a line that begins with #!
is_shebang(line) == Len(line) >= 2 /\ line[1] = "#" /\ line[2] = "!"

\* the script the last func_to_submit_obj call has written
last_script == files[script_path(last.func, last.py_script_name)]

\* C20: the script file func_to_submit_obj writes begins with an interpreter
\* directive line, holds after it the extracted body of the function and
\* nothing else, and has its execute permission set.
C20_ScriptHasShebangAndIsExecutable ==
    (last.op = "func_to_submit_obj" /\ last.err = "")
        => /\ last_script # <<>>
           /\ is_shebang(Head(last_script))
           /\ Tail(last_script) = parse_function(last.func, TRUE)
           /\ "x" \in script_permissions

\* what C20 says of the body: the script holds the extracted body of the
\* function, without the line of its definition
C20_BodyOnlyPart ==
    (last.op = "func_to_submit_obj" /\ last.err = "")
        => /\ last_script = parse_function(last.func, TRUE)
           /\ \A i \in 1..Len(last_script) :
                  last_script[i] # getsource_split(last.func)[1]

-----------------------------------------------------------------------------
(* Where the script is written, and how often *)

\* the place the script is to be written to: dag_dir/<function name>.py for
\* an empty py_script_name, dag_dir/<py_script_name> for a relative one, and
\* py_script_name itself for an absolute one
named_path(func, py_script_name) ==
    IF py_script_name = <<>> THEN dag_dir \o <<func \o ".py">>
    ELSE IF py_script_name[1] = "/" THEN py_script_name
    ELSE dag_dir \o py_script_name

\* C21: func_to_submit_obj given a function writes the script to
\* dag_dir/<function name>.py, to dag_dir/<py_script_name> or to the absolute
\* py_script_name, and the executable of the descriptor is the base name of
\* that path when submit_args does not set it.
C21_ScriptWrittenWhereNamed ==
    (last.op = "func_to_submit_obj" /\ last.func \in Funcs)
        => LET path == named_path(last.func, last.py_script_name)
           IN  /\ last.err = ""
               /\ path \in DOMAIN files
               /\ files[path] = parse_function(last.func, TRUE)
               /\ ~DictHas(last.submit_args, "executable")
                      => executable_of(last.ret) = <<path[Len(path)]>>

\* what C21 says of the calls that return: the directory of the script exists
C21_ReturningCallsPart ==
    (last.op = "func_to_submit_obj" /\ last.err = "")
        => LET path == named_path(last.func, last.py_script_name)
           IN  /\ path \in DOMAIN files
               /\ files[path] = parse_function(last.func, TRUE)
               /\ ~DictHas(last.submit_args, "executable")
                      => executable_of(last.ret) = <<path[Len(path)]>>

\* the function has been registered with the script dag_dir/s.py: its
\* descriptor names s.py, which no submit_args of the model does, and no
\* other s.py has been written
RegisteredAtSPy(func) ==
    /\ func \in DOMAIN submit_functions
    /\ executable_of(submit_functions[func]) = <<"s.py">>
    /\ <<"/", "abs", "s.py">> \notin DOMAIN files

\* C22: the script of a (function name, target directory) pair is written
\* once: a call that registers a function again with the script dag_dir/s.py
\* it was registered with before leaves that file as it is.
C22_ScriptWrittenOnce ==
    [][\A func \in Funcs :
          (/\ RegisteredAtSPy(func)
           /\ last'.op = "func_to_submit_obj"
           /\ last'.func = func
           /\ last'.py_script_name = <<"s.py">>)
              => files'[dag_dir \o <<"s.py">>] = files[dag_dir \o <<"s.py">>]]_vars

-----------------------------------------------------------------------------
(* The job instances of a layer *)

\* C23: a layer added with an empty list of parameter sets has exactly one
\* job instance, without parameters, and a layer added with k >= 1 parameter
\* sets has exactly k job instances, one per parameter set, in order.
C23_OneInstancePerParameterSet ==
    \A i \in 1..Len(job_list) :
        job_instances(job_list[i]) =
            IF job_list[i].vars = <<>> THEN << <<>> >> ELSE job_list[i].vars

\* what C23 says of the layers added with k >= 1 parameter sets
C23_NonEmptyPart ==
    \A i \in 1..Len(job_list) :
        job_list[i].vars # <<>>
            => /\ Len(job_instances(job_list[i])) = Len(job_list[i].vars)
               /\ \A k \in 1..Len(job_list[i].vars) :
                      job_instances(job_list[i])[k] = job_list[i].vars[k]

-----------------------------------------------------------------------------
(* The decorated callable *)

\* C24: a decorated callable carries the attribute _dag_layer, and the
\* attribute refers to the layer object the job list holds for its layer.
C24_WrapperRefersToItsLayer ==
    \A func \in DOMAIN decorated :
        /\ DictHas(wrapper_attributes(decorated[func]), "_dag_layer")
        /\ \E i \in 1..Len(job_list) :
               DictGet(wrapper_attributes(decorated[func]), "_dag_layer")
                   = job_list[i]

\* C25: a function decorated without a layer_name is registered as the layer
\* of its own name: once the decoration is done, and in this code the call
\* that performs the registration, the function's name is in the layer list.
C25_DefaultLayerNameIsFunctionName ==
    (/\ last.op = "call"
     /\ last.err = ""
     /\ decorated[last.func].layer_name = "")
        => In(name_of(last.func), layer_list)

-----------------------------------------------------------------------------
(* The job submit file *)

\* the options a call of write_cube_imaging_submit_file is to write
options_passed(submit_args_dict, use_default_dict) ==
    IF use_default_dict THEN DictUpdate(submit_args_default, submit_args_dict)
    ELSE submit_args_dict

\* C26: the job submit file that write_cube_imaging_submit_file produces
\* through write_job_submit_file holds the options that were passed in: one
\* key = value line per option in mapping order, and the value of
\* unordered_lines as it is, without a key.
C26_SubmitFileHoldsTheOptions ==
    (/\ last.op = "write_cube_imaging_submit_file"
     /\ (last.args[1] \/ last.submit_args # <<>>))
        => LET opts == options_passed(last.submit_args, last.args[1])
           IN  /\ cube.err = ""
               /\ Len(cube.file) >= Len(opts)
               /\ \A i \in 1..Len(opts) :
                      cube.file[i] =
                          IF opts[i][1] = "unordered_lines" THEN <<opts[i][2]>>
                          ELSE <<opts[i][1], "=", opts[i][2]>>
               /\ \A i \in (Len(opts) + 1)..Len(cube.file) :
                      cube.file[i] = <<>>

-----------------------------------------------------------------------------
(* Generated names, positions and the order of the checks *)

\* C27: a generated default name layer_N is never the name of a layer that is
\* already in the layer list, whatever the order of calls with supplied names
\* (names of the form layer_k among them) and calls with generated names.
C27_GeneratedNameIsFresh ==
    [][(/\ last'.op \in {"dag_layer", "func_to_layer"}
        /\ last'.err = ""
        /\ last'.layer_name = "")
           => ~In(last'.ret.val.name, layer_list)]_vars

\* C28: in every reachable state the layer list and the job-name list are
\* equal element by element and position i of the job list holds the layer
\* named by position i of the layer list; the layer a child is attached to
\* bears exactly the requested parent name, and of several layers of that
\* name it is the one added first.
C28_ParentIsEarliestOfItsName ==
    /\ Len(job_names) = Len(layer_list)
    /\ Len(job_list) = Len(layer_list)
    /\ Len(calls) = Len(layer_list)
    /\ \A i \in 1..Len(layer_list) :
          /\ job_names[i] = layer_list[i]
          /\ job_list[i].name = layer_list[i]
          /\ job_list[i].id = i
          /\ calls[i].parent_layer_name # "" =>
                LET p == job_list[i].parent
                IN  /\ p \in 1..(i - 1)
                    /\ layer_list[p] = calls[i].parent_layer_name
                    /\ \A j \in 1..(p - 1) :
                          layer_list[j] # calls[i].parent_layer_name
                    /\ <<job_list[p].id, job_list[i].id>> \in dag.edges

\* two layers are named L1 and a third layer was attached under the name L1
C28_Witness ==
    /\ Len(layer_list) = 3
    /\ layer_list[1] = "L1"
    /\ layer_list[2] = "L1"
    /\ calls[3].parent_layer_name = "L1"
    /\ job_list[3].parent = 1

\* C29: dag_layer given a descriptor that is not an htcondor2.Submit raises
\* TypeError before the parent is checked and before anything is changed: the
\* layer list, the job list, the job-name list, _nlayers, the registry and
\* the DAG are as they were, also when the parent is unknown as well.
C29_TypeErrorBeforeParentCheck ==
    [][\A c \in DagLayerCalls :
          (c[1].kind # "Submit" /\ DagLayerCall(c))
              => /\ last'.err = "TypeError"
                 /\ UNCHANGED graph
                 /\ UNCHANGED <<dag, submit_functions, files>>]_vars

\* layers exist, and a call with a str for the descriptor and an unknown
\* parent has raised TypeError
C29_Witness ==
    /\ last.op = "dag_layer"
    /\ last.submit_obj # "Submit"
    /\ last.parent_layer_name = "nope"
    /\ last.err = "TypeError"
    /\ Len(layer_list) >= 1

-----------------------------------------------------------------------------
(* Construction *)

\* the regular files directly inside dag_dir
directly_inside(fs) == {p \in DOMAIN fs.files : dirname(p) = dag_dir}

\* C30: constructing a Dagger makes dag_dir when it is missing and starts
\* with an empty layer list, job list and registry; with overwrite_dag_dir
\* False it removes nothing, and with overwrite_dag_dir True it removes
\* exactly the regular files directly inside dag_dir: subdirectories and
\* what they hold stay, and so does everything outside dag_dir.
C30_ConstructionClearsOnlyFilesOfDagDir ==
    last.op = "Dagger" =>
        LET overwrite_dag_dir == last.args[1]
            found == last.args[2]
        IN  /\ ~exists(found, dag_dir) => dag_dir \in dirs
            /\ last.err = "" =>
                  /\ layer_list = <<>>
                  /\ job_list = <<>>
                  /\ job_names = <<>>
                  /\ submit_functions = <<>>
                  /\ nlayers = 1
                  /\ dag = [nodes |-> <<>>, edges |-> {}]
            /\ found.dirs \subseteq dirs
            /\ dirs \subseteq found.dirs \cup {dag_dir}
            /\ DOMAIN files \subseteq DOMAIN found.files
            /\ \A p \in DOMAIN files : files[p] = found.files[p]
            /\ (DOMAIN found.files) \ (DOMAIN files)
                  = IF overwrite_dag_dir THEN directly_inside(found) ELSE {}

\* a session was constructed with overwrite_dag_dir in a dag_dir that held a
\* regular file, and a subdirectory with a file in it: the first is gone,
\* the others are there
C30_Witness ==
    /\ last.op = "Dagger"
    /\ last.err = ""
    /\ last.args[1]
    /\ <<"dag", "a.py">> \in DOMAIN last.args[2].files
    /\ <<"dag", "a.py">> \notin DOMAIN files
    /\ <<"dag", "sub">> \in dirs
    /\ <<"dag", "sub", "c.py">> \in DOMAIN files

=============================================================================
